---- MODULE Spec2Model ----
(***************************************************************************)
(* A model of aiscrape.py: the anchor based extraction (extract_content),  *)
(* the orchestration with its retry loop (AIScrape.scrape) and the         *)
(* command-line wrapper (main).  Strings are sequences of characters;      *)
(* positions are 0-based as in Python.  Python's None is the empty tuple   *)
(* and a present value x is the one-element tuple <<x>>.                   *)
(***************************************************************************)
EXTENDS Integers, Sequences, FiniteSets, TLC

\* ---------------------------------------------------------------- bounds
MaxTextLen == 4
MaxAnchorLen == 2
MaxRetries == 3

\* ------------------------------------------------------- program constants
DefaultRetries == 3

Alphabet == {"a", "b"}
Prog == <<"p">>
URLs == {<<"u">>}

RECURSIVE StringsUpTo(_)
StringsUpTo(n) ==
    IF n = 0 THEN {<<>>}
    ELSE LET S == StringsUpTo(n - 1)
         IN  S \cup {Append(s, c) : s \in {x \in S : Len(x) = n - 1}, c \in Alphabet}

Texts == StringsUpTo(MaxTextLen)
Anchors == StringsUpTo(MaxAnchorLen)
RetryInputs == (0 - 1) .. MaxRetries

None == <<>>
Some(x) == <<x>>

\* ------------------------------------------------------------ pure helpers
SetMin(S) == CHOOSE m \in S : \A x \in S : m <= x

\* Python slice text[i:j] for 0 <= i; j is clamped to len(text)
Slice(s, i, j) ==
    LET hi == IF j > Len(s) THEN Len(s) ELSE j
    IN  IF i >= hi THEN <<>> ELSE SubSeq(s, i + 1, hi)

\* str.find(sub, start): lowest index >= start where sub occurs, else -1
findFromOne(s, sub, start) ==
    LET cands == {i \in (start + 1) .. (Len(s) - Len(sub)) : Slice(s, i, i + Len(sub)) = sub}
    IN  IF cands = {} THEN 0 - 1 ELSE SetMin(cands)

find(s, sub, start) ==
    LET cands == {i \in start .. (Len(s) - Len(sub)) : Slice(s, i, i + Len(sub)) = sub}
    IN  IF cands = {} THEN 0 - 1 ELSE SetMin(cands)

\* builtin min, as used at line 75
minAsMax(a, b) == IF a >= b THEN a ELSE b

min(a, b) == IF a <= b THEN a ELSE b

\* extract_content mutations: the end search restarted at the begin match,
\* absence when the end anchor is missing, and a slice exclusive of anchors
extract_content_overlap(t, b, e) ==
    LET start_index == find(t, b, 0)
    IN  IF start_index = 0 - 1 THEN None
        ELSE LET end_index == find(t, e, start_index)
             IN  IF end_index = 0 - 1
                 THEN Some(Slice(t, start_index, Len(t)))
                 ELSE Some(Slice(t, start_index, end_index + Len(e)))

extract_content_noend(t, b, e) ==
    LET start_index == find(t, b, 0)
    IN  IF start_index = 0 - 1 THEN None
        ELSE LET after == start_index + Len(b)
                 end_index == find(t, e, after)
             IN  IF end_index = 0 - 1
                 THEN None
                 ELSE Some(Slice(t, after - Len(b), end_index + Len(e)))

extract_content_exclusive(t, b, e) ==
    LET start_index == find(t, b, 0)
    IN  IF start_index = 0 - 1 THEN None
        ELSE LET after == start_index + Len(b)
                 end_index == find(t, e, after)
             IN  IF end_index = 0 - 1
                 THEN Some(Slice(t, after, Len(t)))
                 ELSE Some(Slice(t, after, end_index))

extract_content(t, b, e) ==
    LET start_index == find(t, b, 0)
    IN  IF start_index = 0 - 1 THEN None
        ELSE LET after == start_index + Len(b)
                 end_index == find(t, e, after)
             IN  IF end_index = 0 - 1
                 THEN Some(Slice(t, after - Len(b), Len(t)))
                 ELSE Some(Slice(t, after - Len(b), end_index + Len(e)))

\* the loop test of scrape
LoopCondOffByOne(c, r) == c = None /\ r >= 0 - 1

LoopCond(c, r) == c = None /\ r >= 0

\* status of the interpreter after the module body ran `main()`
ExitStatus(ret, exc) == IF exc # "" THEN 1 ELSE 0

\* ------------------------------------------------------------------ state
VARIABLES entry, argv, pc, url, requested, retries, text, begin, end, content,
          raised, fetchStatus, oracleStatus, fetchCalls, oracleCalls, attempts,
          results, returned, retval, stdout, mainRet, exitCode

vars == <<entry, argv, pc, url, requested, retries, text, begin, end, content,
          raised, fetchStatus, oracleStatus, fetchCalls, oracleCalls, attempts,
          results, returned, retval, stdout, mainRet, exitCode>>

scrapeLocals == <<text, begin, end, content, retries>>
counters == <<fetchStatus, oracleStatus, fetchCalls, oracleCalls, attempts, results>>
mainVars == <<stdout, mainRet, exitCode>>

Common ==
    /\ text = None /\ begin = None /\ end = None /\ content = None
    /\ raised = ""
    /\ fetchStatus = "none" /\ oracleStatus = "none"
    /\ fetchCalls = 0 /\ oracleCalls = 0 /\ attempts = 0
    /\ results = <<>>
    /\ returned = FALSE /\ retval = None
    /\ stdout = <<>> /\ mainRet = None /\ exitCode = 0

\* either the script is run (main) or scrape(url, retries=n) is called
Init ==
    /\ Common
    /\ \/ /\ entry = "main"
          /\ argv \in {<<Prog>>} \cup {<<Prog, u>> : u \in URLs}
          /\ pc = "main"
          /\ url = None
          /\ requested = DefaultRetries
          /\ retries = DefaultRetries
       \/ /\ entry = "scrape"
          /\ argv = <<>>
          /\ pc = "s72"
          /\ url \in {Some(u) : u \in URLs}
          /\ requested \in RetryInputs
          /\ retries = requested

\* ---------------------------------------------------------------- scrape
FetchOk ==
    /\ pc = "s72"
    /\ \E t \in Texts : text' = Some(t)
    /\ fetchCalls' = fetchCalls + 1
    /\ fetchStatus' = "ok"
    /\ pc' = "s73"
    /\ UNCHANGED <<entry, argv, url, requested, retries, begin, end, content, raised,
                   oracleStatus, oracleCalls, attempts, results, returned, retval, mainVars>>

FetchFailSwallowed ==
    /\ pc = "s72"
    /\ text' = Some(<<>>)
    /\ fetchCalls' = fetchCalls + 1
    /\ fetchStatus' = "failed"
    /\ pc' = "s73"
    /\ UNCHANGED <<entry, argv, url, requested, retries, begin, end, content, raised,
                   oracleStatus, oracleCalls, attempts, results, returned, retval, mainVars>>

FetchFail ==
    /\ pc = "s72"
    /\ fetchCalls' = fetchCalls + 1
    /\ fetchStatus' = "failed"
    /\ raised' = "FetchError"
    /\ pc' = "scrape_raised"
    /\ UNCHANGED <<entry, argv, url, requested, scrapeLocals,
                   oracleStatus, oracleCalls, attempts, results, returned, retval, mainVars>>

OracleOk ==
    /\ pc = "s73"
    /\ \E b \in Anchors, e \in Anchors : begin' = Some(b) /\ end' = Some(e)
    /\ oracleCalls' = oracleCalls + 1
    /\ oracleStatus' = "ok"
    /\ pc' = "s74"
    /\ UNCHANGED <<entry, argv, url, requested, retries, text, content, raised,
                   fetchStatus, fetchCalls, attempts, results, returned, retval, mainVars>>

OracleFail ==
    /\ pc = "s73"
    /\ oracleCalls' = oracleCalls + 1
    /\ oracleStatus' = "failed"
    /\ raised' = "OracleError"
    /\ pc' = "scrape_raised"
    /\ UNCHANGED <<entry, argv, url, requested, scrapeLocals,
                   fetchStatus, fetchCalls, attempts, results, returned, retval, mainVars>>

Clamp ==
    /\ pc = "s74"
    /\ content' = None
    /\ retries' = min(0, retries)
    /\ pc' = "s76"
    /\ UNCHANGED <<entry, argv, url, requested, text, begin, end, raised,
                   counters, returned, retval, mainVars>>

AttemptRequery ==
    /\ pc = "s76"
    /\ LoopCond(content, retries)
    /\ \E b \in Anchors, e \in Anchors :
          /\ begin' = Some(b) /\ end' = Some(e)
          /\ content' = extract_content(text[1], b, e)
    /\ oracleCalls' = oracleCalls + 1
    /\ retries' = retries - 1
    /\ attempts' = attempts + 1
    /\ results' = Append(results, content')
    /\ UNCHANGED <<entry, argv, pc, url, requested, text, raised,
                   fetchStatus, oracleStatus, fetchCalls, returned, retval, mainVars>>

Attempt ==
    /\ pc = "s76"
    /\ LoopCond(content, retries)
    /\ content' = extract_content(text[1], begin[1], end[1])
    /\ retries' = retries - 1
    /\ attempts' = attempts + 1
    /\ results' = Append(results, content')
    /\ UNCHANGED <<entry, argv, pc, url, requested, text, begin, end, raised,
                   fetchStatus, oracleStatus, fetchCalls, oracleCalls,
                   returned, retval, mainVars>>

Return ==
    /\ pc = "s76"
    /\ ~LoopCond(content, retries)
    /\ retval' = content
    /\ returned' = TRUE
    /\ pc' = "scrape_returned"
    /\ UNCHANGED <<entry, argv, url, requested, scrapeLocals, raised, counters, mainVars>>

\* ------------------------------------------------------------------ main
MainUsage ==
    /\ pc = "main"
    /\ Len(argv) < 2
    /\ stdout' = Append(stdout, [kind |-> "usage", arg |-> argv[1]])
    /\ mainRet' = Some(1)
    /\ pc' = "main_returned"
    /\ UNCHANGED <<entry, argv, url, requested, scrapeLocals, raised, counters,
                   returned, retval, exitCode>>

MainCall ==
    /\ pc = "main"
    /\ Len(argv) >= 2
    /\ url' = Some(argv[2])
    /\ pc' = "s72"
    /\ UNCHANGED <<entry, argv, requested, scrapeLocals, raised, counters,
                   returned, retval, mainVars>>

MainFailed ==
    /\ entry = "main"
    /\ pc = "scrape_returned"
    /\ retval = None
    /\ stdout' = Append(stdout, [kind |-> "failed", arg |-> url[1]])
    /\ mainRet' = Some(2)
    /\ pc' = "main_returned"
    /\ UNCHANGED <<entry, argv, url, requested, scrapeLocals, raised, counters,
                   returned, retval, exitCode>>

MainPrint ==
    /\ entry = "main"
    /\ pc = "scrape_returned"
    /\ retval # None
    /\ stdout' = Append(stdout, [kind |-> "content", arg |-> retval[1]])
    /\ mainRet' = None
    /\ pc' = "main_returned"
    /\ UNCHANGED <<entry, argv, url, requested, scrapeLocals, raised, counters,
                   returned, retval, exitCode>>

Exit ==
    /\ entry = "main"
    /\ pc \in {"main_returned", "scrape_raised"}
    /\ exitCode' = ExitStatus(mainRet, raised)
    /\ pc' = "exited"
    /\ UNCHANGED <<entry, argv, url, requested, scrapeLocals, raised, counters,
                   returned, retval, stdout, mainRet>>

Next ==
    \/ FetchOk \/ FetchFail \/ OracleOk \/ OracleFail
    \/ Clamp \/ Attempt \/ Return
    \/ MainUsage \/ MainCall \/ MainFailed \/ MainPrint \/ Exit

Spec == Init /\ [][Next]_vars

\* every step of the synchronous program is eventually taken
FairSpec == Spec /\ WF_vars(Next)

\* ------------------------------------------------- vocabulary of the claims
\* b occurs in t at 0-based position i, character by character
OccursAt(b, t, i) ==
    /\ i >= 0
    /\ i + Len(b) <= Len(t)
    /\ \A k \in 1 .. Len(b) : t[i + k] = b[k]

Occurs(b, t) == \E i \in 0 .. Len(t) : OccursAt(b, t, i)

\* b first occurs in t at i, searching from position from
FirstAt(b, t, from, i) ==
    /\ i >= from
    /\ OccursAt(b, t, i)
    /\ \A j \in from .. (i - 1) : ~OccursAt(b, t, j)

OccursFrom(b, t, from) == \E i \in from .. Len(t) : OccursAt(b, t, i)

StartsWith(r, b) == OccursAt(b, r, 0)
EndsWith(r, e) == OccursAt(e, r, Len(r) - Len(e))
IsSubstring(r, t) == Occurs(r, t)

\* the characters of t from position i (0-based) up to, not including, j
Span(t, i, j) == [k \in 1 .. (j - i) |-> t[i + k]]

FirstPresent(rs) ==
    IF \E k \in 1 .. Len(rs) : rs[k] # None
    THEN rs[SetMin({k \in 1 .. Len(rs) : rs[k] # None})]
    ELSE None

Attempted == attempts > 0
T == text[1]
B == begin[1]
E == end[1]
Result == results[Len(results)]

ScrapeDone ==
    /\ url # None
    /\ pc \in {"scrape_returned", "scrape_raised", "main_returned", "exited"}

\* ------------------------------------------------------------------ claims

\* C1: extract_content returns None exactly when begin does not occur in the
\* text as a literal substring, whatever end is.
C1_AbsentIffBeginMissing ==
    Attempted => ((Result = None) <=> ~Occurs(B, T))

C1_Witness ==
    /\ Attempted
    /\ B # <<>> /\ ~Occurs(B, T) /\ Occurs(E, T) /\ E # <<>>
    /\ Result = None

\* C2: when begin occurs and end occurs at or after the position following
\* begin's first match, the result is the slice from the start of that begin
\* match through the end of the first such end match; it starts with begin,
\* ends with end, has length (end match end) - (begin match start), and the
\* end match does not overlap or precede the begin match.
C2_SpanBetweenAnchors ==
    Attempted =>
        \A i \in 0 .. Len(T), j \in 0 .. Len(T) :
            (FirstAt(B, T, 0, i) /\ FirstAt(E, T, i + Len(B), j)) =>
                /\ Result = Some(Span(T, i, j + Len(E)))
                /\ StartsWith(Result[1], B)
                /\ EndsWith(Result[1], E)
                /\ Len(Result[1]) = (j + Len(E)) - i
                /\ j >= i + Len(B)

C2_Witness ==
    /\ Attempted
    /\ B # <<>> /\ E # <<>>
    /\ \E i \in 1 .. Len(T), j \in 0 .. Len(T) :
          /\ FirstAt(B, T, 0, i)
          /\ FirstAt(E, T, i + Len(B), j)
          /\ OccursAt(E, T, 0)
          /\ Result = Some(Span(T, i, j + Len(E)))
          /\ j + Len(E) < Len(T)

\* C3 as stated: with an end anchor that is empty or does not occur after
\* begin's first match, the result is the suffix of the text starting at
\* begin's first occurrence.
C3_Original ==
    Attempted =>
        \A i \in 0 .. Len(T) :
            (FirstAt(B, T, 0, i) /\ (E = <<>> \/ ~OccursFrom(E, T, i + Len(B)))) =>
                Result = Some(Span(T, i, Len(T)))

\* C3 as amended: with an end anchor that does not occur at or after the
\* position following begin's first match, the result is the suffix of the
\* text starting at begin's first occurrence; an empty end anchor always
\* matches right after begin, and the result is then begin itself.
C3_SuffixWhenEndMissing ==
    Attempted =>
        \A i \in 0 .. Len(T) :
            FirstAt(B, T, 0, i) =>
                /\ ~OccursFrom(E, T, i + Len(B)) => Result = Some(Span(T, i, Len(T)))
                /\ E = <<>> => Result = Some(B)

C3_Witness ==
    /\ Attempted
    /\ \E i \in 1 .. Len(T) :
          /\ FirstAt(B, T, 0, i)
          /\ E # <<>> /\ Occurs(E, T) /\ ~OccursFrom(E, T, i + Len(B))
          /\ Result = Some(Span(T, i, Len(T)))

\* C4 as stated: a present extraction result, and so a present outcome of
\* scrape, is a non-empty contiguous substring of the text.
C4_Original ==
    /\ (Attempted /\ Result # None) => (Result[1] # <<>> /\ IsSubstring(Result[1], T))
    /\ (returned /\ retval # None) => (retval[1] # <<>> /\ IsSubstring(retval[1], T))

\* C4 as amended: a present extraction result, and so a present outcome of
\* scrape, is a contiguous substring of the text; it is empty exactly when
\* begin is empty and either end or the text is empty.
C4_SubstringOfText ==
    /\ (Attempted /\ Result # None) =>
          /\ IsSubstring(Result[1], T)
          /\ (Result[1] = <<>>) <=> (B = <<>> /\ (E = <<>> \/ T = <<>>))
    /\ (returned /\ retval # None) =>
          /\ IsSubstring(retval[1], T)
          /\ (retval[1] = <<>>) <=> (B = <<>> /\ (E = <<>> \/ T = <<>>))

C4_Witness ==
    /\ returned /\ retval # None
    /\ B # <<>>
    /\ retval[1] # <<>> /\ retval[1] # T /\ IsSubstring(retval[1], T)

\* C5: when the fetch fails, scrape ends in that error: the oracle is never
\* queried, no extraction is attempted and no outcome is returned.
C5_FetchErrorPropagates ==
    fetchStatus = "failed" =>
        /\ raised = "FetchError"
        /\ pc \in {"scrape_raised", "exited"}
        /\ oracleCalls = 0 /\ oracleStatus = "none"
        /\ attempts = 0
        /\ ~returned /\ retval = None
        /\ text = None

C5_Witness ==
    /\ fetchStatus = "failed" /\ raised = "FetchError"
    /\ pc = "scrape_raised" /\ entry = "scrape"
    /\ oracleCalls = 0 /\ attempts = 0 /\ ~returned

\* C6 as stated: with fetch and oracle successful, the number of extraction
\* attempts is at least zero and at most the requested number n; scrape
\* returns the first present extraction result, or absence if there is none.
C6_Original ==
    returned =>
        /\ attempts >= 0 /\ attempts <= requested
        /\ retval = FirstPresent(results)

\* C6 as amended: the number of extraction attempts is at least zero and at
\* most n + 1 when n >= 0, and zero when n < 0; scrape returns the first
\* present extraction result, or absence if there is none.
C6_AttemptsBounded ==
    /\ attempts >= 0
    /\ attempts <= (IF requested >= 0 THEN requested + 1 ELSE 0)
    /\ returned => retval = FirstPresent(results)

C6_Witness ==
    /\ returned /\ requested = 0 /\ attempts = 1
    /\ retval = None /\ retval = FirstPresent(results)

\* C7: with retries = n >= 0 and a begin anchor that does not occur in the
\* text, extraction is attempted n + 1 times before scrape returns absence.
C7_RetriesAfterFirstAttempt ==
    (returned /\ requested >= 0 /\ ~Occurs(B, T)) =>
        (attempts = requested + 1 /\ retval = None)

\* C8: the fetcher is called exactly once per scrape call and the oracle
\* exactly once after a successful fetch, both before any extraction; an
\* extraction attempt changes neither the text nor the anchors and never
\* queries the oracle again.
C8_State ==
    /\ fetchCalls <= 1 /\ oracleCalls <= 1
    /\ ScrapeDone => fetchCalls = 1
    /\ (ScrapeDone /\ fetchStatus = "ok") => oracleCalls = 1
    /\ Attempted => (fetchStatus = "ok" /\ oracleStatus = "ok")
    /\ oracleCalls > 0 => fetchStatus = "ok"

C8_Step ==
    /\ attempts' # attempts =>
          /\ fetchCalls = 1 /\ oracleCalls = 1
          /\ UNCHANGED <<text, begin, end, fetchCalls, oracleCalls>>
    /\ oracleStatus = "ok" => UNCHANGED <<text, begin, end, oracleCalls>>

C8_FetchOnceOracleOnce == [][C8_State /\ C8_State' /\ C8_Step]_vars

C8_Witness ==
    /\ returned /\ attempts = 1
    /\ fetchCalls = 1 /\ oracleCalls = 1
    /\ text # None /\ begin # None /\ end # None

\* C9: the process exit code is 1 with a usage message when the URL argument
\* is missing, 2 with a message naming the URL when scrape returns absence,
\* and 0 with the content printed when scrape returns content.
C9_ExitCodeReflectsOutcome ==
    (pc = "exited" /\ raised = "") =>
        /\ Len(argv) < 2 =>
              /\ exitCode = 1
              /\ stdout = <<[kind |-> "usage", arg |-> argv[1]]>>
              /\ fetchCalls = 0 /\ oracleCalls = 0
        /\ (returned /\ retval = None) =>
              /\ exitCode = 2
              /\ stdout = <<[kind |-> "failed", arg |-> argv[2]]>>
        /\ (returned /\ retval # None) =>
              /\ exitCode = 0
              /\ stdout = <<[kind |-> "content", arg |-> retval[1]]>>

\* C10: with min(0, retries) every scrape call whose fetch and oracle
\* succeed ends after at most one extraction attempt: one attempt when
\* retries >= 0, the outcome being extract_content(text, begin, end), and
\* none when retries < 0, the outcome being absence.
C10_State ==
    /\ attempts <= 1
    /\ returned =>
          /\ requested >= 0 =>
                (attempts = 1 /\ retval = extract_content(T, B, E) /\ retval = Result)
          /\ requested < 0 => (attempts = 0 /\ retval = None)

====
